---- MODULE Spec2Model ----
(***************************************************************************)
(* Model of create_facet_grid_pattern (src/color_grid.py): the allocation  *)
(* of the labels Empty / NonHydrophobic / Hydrophobic onto the 7x7 facet   *)
(* grid.  One behaviour is one call of the function; every write to the   *)
(* grid is one step.                                                       *)
(***************************************************************************)
EXTENDS Integers, Sequences, FiniteSets, TLC

(* Resolution of the input sets: a density is n/Res with n in 0..Res, the  *)
(* hydrophobic ratio is n/RatioRes.  EdgeRes and FaceRes produce every     *)
(* integer edge target 0..28 and face target 0..9; VertexRes produces the  *)
(* corner targets 0, 3, 6, 9, 12.                                          *)
VertexRes == 4
EdgeRes == 28
FaceRes == 9
RatioRes == 14

(* Labels of the grid (docstring of create_facet_grid_pattern). *)
Empty == 0
NonHydrophobic == 1
Hydrophobic == 2

GridSize == 7

Min(a, b) == IF a <= b THEN a ELSE b

InSeq(s, x) == \E k \in DOMAIN s : s[k] = x

Range(s) == {s[k] : k \in DOMAIN s}

Reverse(s) == [k \in 1..Len(s) |-> s[Len(s) + 1 - k]]

Cells == (0..(GridSize - 1)) \X (0..(GridSize - 1))

(* for i in range(lo, hi+1): for j in range(lo, hi+1): (i, j) *)
RowMajor(lo, hi) ==
  LET n == hi - lo + 1
  IN  [k \in 1..(n * n) |-> <<lo + ((k - 1) \div n), lo + ((k - 1) % n)>>]

(* int(x) of the non-negative rational num/den: truncation.  The rounding  *)
(* of the binary floating-point product is not modelled.                   *)
PyInt(num, den) == num \div den

corners ==
  << <<0,0>>, <<0,1>>, <<1,0>>, <<0,6>>, <<0,5>>, <<1,6>>,
     <<6,0>>, <<5,0>>, <<6,1>>, <<6,6>>, <<6,5>>, <<5,6>> >>

edges_outer_only ==
  SelectSeq(RowMajor(0, 6),
            LAMBDA p : (p[1] = 0 \/ p[1] = 6 \/ p[2] = 0 \/ p[2] = 6)
                       /\ ~InSeq(corners, p))

edges ==
  SelectSeq(RowMajor(0, 6),
            LAMBDA p : (p[1] = 0 \/ p[1] = 6 \/ p[2] = 0 \/ p[2] = 6)
                       /\ ~InSeq(corners, p))
  \o
  SelectSeq(RowMajor(1, 5),
            LAMBDA p : (p[1] = 1 \/ p[1] = 5 \/ p[2] = 1 \/ p[2] = 5)
                       /\ ~InSeq(corners, p))

faces == RowMajor(2, 4)

corner_groups ==
  << << <<0,0>>, <<6,6>> >>,
     << <<0,6>>, <<6,0>> >>,
     << <<0,1>>, <<6,5>> >>,
     << <<1,0>>, <<5,6>> >>,
     << <<0,5>>, <<6,1>> >>,
     << <<1,6>>, <<5,0>> >> >>

edge_groups_skewed ==
  << << <<6,3>>, <<3,6>>, <<0,3>>, <<3,0>> >>,
     << <<1,1>>, <<5,5>>, <<1,5>>, <<5,1>> >>,
     << <<5,2>>, <<1,4>> >>,
     << <<0,2>>, <<4,0>>, <<2,0>>, <<0,4>> >>,
     << <<6,2>>, <<6,4>>, <<2,6>>, <<4,6>> >>,
     << <<1,2>>, <<5,4>>, <<1,3>>, <<5,3>> >>,
     << <<2,1>>, <<4,5>>, <<4,1>> >>,
     << <<2,5>>, <<3,1>>, <<3,5>> >> >>

edge_groups ==
  << << <<6,3>>, <<3,6>>, <<0,3>>, <<3,0>> >>,
     << <<1,1>>, <<5,5>>, <<1,5>>, <<5,1>> >>,
     << <<5,2>>, <<1,4>> >>,
     << <<0,2>>, <<0,4>>, <<2,0>>, <<4,0>> >>,
     << <<6,2>>, <<6,4>>, <<2,6>>, <<4,6>> >>,
     << <<1,2>>, <<5,4>>, <<1,3>>, <<5,3>> >>,
     << <<2,1>>, <<4,5>>, <<4,1>> >>,
     << <<2,5>>, <<3,1>>, <<3,5>> >> >>

face_groups ==
  << << <<3,3>> >>,
     << <<2,2>>, <<4,4>>, <<4,2>>, <<2,4>> >>,
     << <<2,3>>, <<4,3>>, <<3,2>>, <<3,4>> >> >>

(* vertex_gd, edge_gd, face_gd and blue_ratio hold the numerators of the   *)
(* parameters.  pc, role, group and i are the position in the function:    *)
(* the running loop, the index of its group and the index inside the       *)
(* group.  writes and last_pair record the history: the number of          *)
(* assignments made to the grid, and the group and label of the last loop  *)
(* pass that filled in pairs.                                              *)
VARIABLES
  vertex_gd, edge_gd, face_gd, blue_ratio,
  vertex_chains, edge_chains, face_chains, hydrophobic_count,
  grid, blue_count,
  current_vertex_count, current_edge_count, current_face_count,
  remaining_blue, green_count, target_green_remaining,
  pc, role, group, i,
  available_positions, positions_to_fill, pairs_to_fill,
  writes, last_pair

(* the four parameters (numerators of the densities and of the ratio) and  *)
(* the targets computed from them once                                     *)
inputs == <<vertex_gd, edge_gd, face_gd, blue_ratio,
            vertex_chains, edge_chains, face_chains, hydrophobic_count>>

counters == <<blue_count, current_vertex_count, current_edge_count,
              current_face_count, remaining_blue, green_count,
              target_green_remaining>>

locals == <<available_positions, positions_to_fill, pairs_to_fill>>

vars == <<vertex_gd, edge_gd, face_gd, blue_ratio,
          vertex_chains, edge_chains, face_chains, hydrophobic_count,
          grid, blue_count,
          current_vertex_count, current_edge_count, current_face_count,
          remaining_blue, green_count, target_green_remaining,
          pc, role, group, i,
          available_positions, positions_to_fill, pairs_to_fill,
          writes, last_pair>>

total_chains == vertex_chains + edge_chains + face_chains

non_hydrophobic_count_swapped == hydrophobic_count

non_hydrophobic_count == total_chains - hydrophobic_count

sites_at_high_curvature_region == vertex_chains + edge_chains

total_chains_target == sites_at_high_curvature_region + face_chains

(* grid[pos]: the grid is a 7x7 array, rows and columns numbered from 0 *)
At(pos) == grid[pos[1] + 1][pos[2] + 1]

(* grid[pos] = label; writes counts the assignments made to the grid *)
Put(pos, label) ==
  /\ grid' = [grid EXCEPT ![pos[1] + 1][pos[2] + 1] = label]
  /\ writes' = writes + 1

Init ==
  /\ vertex_gd \in 0..VertexRes
  /\ edge_gd \in 0..EdgeRes
  /\ face_gd \in 0..FaceRes
  /\ blue_ratio \in 0..RatioRes
  /\ vertex_chains = PyInt(vertex_gd * Len(corners), VertexRes)
  /\ edge_chains = PyInt(edge_gd * Len(edges), EdgeRes)
  /\ face_chains = PyInt(face_gd * Len(faces), FaceRes)
  /\ hydrophobic_count =
       PyInt((PyInt(vertex_gd * Len(corners), VertexRes)
              + PyInt(edge_gd * Len(edges), EdgeRes)
              + PyInt(face_gd * Len(faces), FaceRes)) * blue_ratio, RatioRes)
  /\ grid = [r \in 1..GridSize |-> [c \in 1..GridSize |-> Empty]]
  /\ writes = 0
  /\ blue_count = 0
  /\ current_vertex_count = 0
  /\ current_edge_count = 0
  /\ current_face_count = 0
  /\ remaining_blue = 0
  /\ green_count = 0
  /\ target_green_remaining = 0
  /\ pc = "corner_blue"
  /\ role = "corner"
  /\ group = 1
  /\ i = 0
  /\ available_positions = <<>>
  /\ positions_to_fill = 0
  /\ pairs_to_fill = 0
  /\ last_pair = <<>>

----------------------------------------------------------------------------
(* 1. Hydrophobic on corners *)

CornerBlueStop_off_by_one ==
  current_vertex_count + 1 >= vertex_chains
    \/ blue_count >= hydrophobic_count

CornerBlueStop ==
  current_vertex_count >= vertex_chains \/ blue_count >= hydrophobic_count

CornerBlueWrite ==
  /\ pc = "corner_blue"
  /\ i < Len(corner_groups[group])
  /\ ~CornerBlueStop
  /\ Put(corner_groups[group][i + 1], Hydrophobic)
  /\ blue_count' = blue_count + 1
  /\ current_vertex_count' = current_vertex_count + 1
  /\ i' = i + 1
  /\ UNCHANGED <<inputs, current_edge_count, current_face_count,
                 remaining_blue, green_count, target_green_remaining,
                 pc, role, group, locals, last_pair>>

CornerBlueAdvance ==
  /\ pc = "corner_blue"
  /\ ~(i < Len(corner_groups[group]) /\ ~CornerBlueStop)
  /\ IF current_vertex_count >= vertex_chains \/ group = Len(corner_groups)
       THEN /\ pc' = "edge_blue_head"
            /\ role' = "edge"
            /\ group' = 1
       ELSE /\ group' = group + 1
            /\ UNCHANGED <<pc, role>>
  /\ i' = 0
  /\ UNCHANGED <<inputs, grid, writes, counters, locals, last_pair>>

----------------------------------------------------------------------------
(* 2. Hydrophobic on edges *)

EdgeBlueAvailable(g) ==
  SelectSeq(g, LAMBDA pos : InSeq(edges, pos) /\ At(pos) = Empty)

BluePositionsToFill_uncapped(avail) == Len(avail)

BluePositionsToFill(avail) ==
  Min(Len(avail), hydrophobic_count - blue_count)

(* the test closing one pass of the edge loop, and the end of the list *)
EdgeBlueAfter(cec, bc) ==
  IF cec >= edge_chains \/ bc >= hydrophobic_count
     \/ group = Len(edge_groups)
    THEN /\ pc' = "face_blue_init"
         /\ role' = "face"
         /\ group' = 1
    ELSE /\ pc' = "edge_blue_head"
         /\ group' = group + 1
         /\ UNCHANGED role

EdgeBlueHead ==
  /\ pc = "edge_blue_head"
  /\ LET avail == EdgeBlueAvailable(edge_groups[group])
         ptf == BluePositionsToFill(avail)
     IN  /\ available_positions' = avail
         /\ positions_to_fill' = ptf
         /\ IF ptf <= 0
              THEN /\ pc' = "face_blue_init"
                   /\ role' = "face"
                   /\ group' = 1
              ELSE /\ pc' = IF ptf >= 2 /\ ptf % 2 = 0 /\ Len(avail) % 2 = 0
                              THEN "edge_blue_pair"
                              ELSE "edge_blue_seq"
                   /\ UNCHANGED <<role, group>>
  /\ i' = 0
  /\ UNCHANGED <<inputs, grid, writes, counters, pairs_to_fill, last_pair>>

EdgeBluePair ==
  /\ pc = "edge_blue_pair"
  /\ IF i + 1 < Len(available_positions)
       THEN /\ Put(available_positions[i + 1], Hydrophobic)
            /\ pc' = "edge_blue_pair2"
            /\ UNCHANGED <<i, role, group>>
       ELSE /\ i' = i + 2
            /\ IF i + 2 < positions_to_fill
                 THEN UNCHANGED <<pc, role, group>>
                 ELSE EdgeBlueAfter(current_edge_count, blue_count)
            /\ UNCHANGED <<grid, writes>>
  /\ UNCHANGED <<inputs, counters, locals, last_pair>>

EdgeBluePair2 ==
  /\ pc = "edge_blue_pair2"
  /\ Put(available_positions[i + 2], Hydrophobic)
  /\ blue_count' = blue_count + 2
  /\ current_edge_count' = current_edge_count + 2
  /\ i' = i + 2
  /\ IF i + 2 < positions_to_fill
       THEN /\ pc' = "edge_blue_pair"
            /\ UNCHANGED <<role, group, last_pair>>
       ELSE /\ EdgeBlueAfter(current_edge_count + 2, blue_count + 2)
            /\ last_pair' = <<edge_groups[group], Hydrophobic>>
  /\ UNCHANGED <<inputs, current_vertex_count, current_face_count,
                 remaining_blue, green_count, target_green_remaining, locals>>

EdgeBlueSeq ==
  /\ pc = "edge_blue_seq"
  /\ IF i < Len(available_positions)
       THEN /\ Put(available_positions[i + 1], Hydrophobic)
            /\ blue_count' = blue_count + 1
            /\ current_edge_count' = current_edge_count + 1
       ELSE UNCHANGED <<grid, writes, blue_count, current_edge_count>>
  /\ i' = i + 1
  /\ IF i + 1 < positions_to_fill
       THEN UNCHANGED <<pc, role, group>>
       ELSE EdgeBlueAfter(current_edge_count', blue_count')
  /\ UNCHANGED <<inputs, current_vertex_count, current_face_count,
                 remaining_blue, green_count, target_green_remaining,
                 locals, last_pair>>

----------------------------------------------------------------------------
(* 3. Hydrophobic on faces *)

FaceBlueAvailable(g) ==
  SelectSeq(g, LAMBDA pos : InSeq(faces, pos) /\ At(pos) = Empty)

FaceRemainingBlue_role_target ==
  Min(face_chains - blue_count, hydrophobic_count - blue_count)

FaceRemainingBlue ==
  Min(total_chains_target - blue_count, hydrophobic_count - blue_count)

FaceBlueInit ==
  /\ pc = "face_blue_init"
  /\ remaining_blue' = FaceRemainingBlue
  /\ pc' = "face_blue_head"
  /\ UNCHANGED <<inputs, grid, writes, blue_count, current_vertex_count,
                 current_edge_count, current_face_count, green_count,
                 target_green_remaining, role, group, i, locals, last_pair>>

(* the two tests closing one pass of the face loop, and the end of the list *)
FaceBlueAfter(rb, cfc) ==
  IF rb <= 0 \/ cfc >= face_chains \/ group = Len(face_groups)
    THEN /\ pc' = "green_init"
         /\ group' = 1
    ELSE /\ pc' = "face_blue_head"
         /\ group' = group + 1

FaceBlueHead ==
  /\ pc = "face_blue_head"
  /\ LET g == face_groups[group]
         avail == FaceBlueAvailable(g)
         ptf == Min(remaining_blue \div 2, Len(avail) \div 2)
     IN  /\ available_positions' = avail
         /\ IF Len(avail) <= remaining_blue
              THEN /\ IF Len(avail) > 0
                        THEN /\ pc' = "face_blue_full"
                             /\ UNCHANGED group
                        ELSE FaceBlueAfter(remaining_blue, current_face_count)
                   /\ UNCHANGED <<grid, writes, counters, pairs_to_fill>>
              ELSE IF Len(g) = 1
                THEN IF remaining_blue >= 1
                  THEN /\ Put(g[1], Hydrophobic)
                       /\ blue_count' = blue_count + 1
                       /\ current_face_count' = current_face_count + 1
                       /\ remaining_blue' = remaining_blue - 1
                       /\ FaceBlueAfter(remaining_blue - 1,
                                        current_face_count + 1)
                       /\ UNCHANGED <<current_vertex_count, current_edge_count,
                                      green_count, target_green_remaining,
                                      pairs_to_fill>>
                  ELSE /\ FaceBlueAfter(remaining_blue, current_face_count)
                       /\ UNCHANGED <<grid, writes, counters, pairs_to_fill>>
              ELSE IF remaining_blue >= 2
                THEN /\ pairs_to_fill' = ptf
                     /\ IF ptf > 0
                          THEN /\ pc' = "face_blue_pair"
                               /\ UNCHANGED group
                          ELSE FaceBlueAfter(remaining_blue,
                                             current_face_count)
                     /\ UNCHANGED <<grid, writes, counters>>
                ELSE /\ FaceBlueAfter(remaining_blue, current_face_count)
                     /\ UNCHANGED <<grid, writes, counters, pairs_to_fill>>
  /\ i' = 0
  /\ UNCHANGED <<inputs, role, positions_to_fill, last_pair>>

FaceBlueFull ==
  /\ pc = "face_blue_full"
  /\ Put(available_positions[i + 1], Hydrophobic)
  /\ blue_count' = blue_count + 1
  /\ current_face_count' = current_face_count + 1
  /\ remaining_blue' = remaining_blue - 1
  /\ i' = i + 1
  /\ IF i + 1 < Len(available_positions)
       THEN UNCHANGED <<pc, group>>
       ELSE FaceBlueAfter(remaining_blue - 1, current_face_count + 1)
  /\ UNCHANGED <<inputs, current_vertex_count, current_edge_count,
                 green_count, target_green_remaining, role, locals,
                 last_pair>>

FaceBluePair ==
  /\ pc = "face_blue_pair"
  /\ IF 2 * i + 1 < Len(available_positions)
       THEN /\ Put(available_positions[2 * i + 1], Hydrophobic)
            /\ pc' = "face_blue_pair2"
            /\ UNCHANGED <<i, group>>
       ELSE /\ i' = i + 1
            /\ IF i + 1 < pairs_to_fill
                 THEN UNCHANGED <<pc, group>>
                 ELSE FaceBlueAfter(remaining_blue, current_face_count)
            /\ UNCHANGED <<grid, writes>>
  /\ UNCHANGED <<inputs, counters, role, locals, last_pair>>

FaceBluePair2 ==
  /\ pc = "face_blue_pair2"
  /\ Put(available_positions[2 * i + 2], Hydrophobic)
  /\ blue_count' = blue_count + 2
  /\ current_face_count' = current_face_count + 2
  /\ remaining_blue' = remaining_blue - 2
  /\ i' = i + 1
  /\ IF i + 1 < pairs_to_fill
       THEN /\ pc' = "face_blue_pair"
            /\ UNCHANGED <<group, last_pair>>
       ELSE /\ FaceBlueAfter(remaining_blue - 2, current_face_count + 2)
            /\ last_pair' = <<face_groups[group], Hydrophobic>>
  /\ UNCHANGED <<inputs, current_vertex_count, current_edge_count,
                 green_count, target_green_remaining, role, locals>>

----------------------------------------------------------------------------
(* 4. NonHydrophobic on faces, then corners, then edges (reversed).  The    *)
(* three loops run the same body; role names the loop.                     *)

GreenGroups ==
  IF role = "face" THEN face_groups
  ELSE IF role = "corner" THEN corner_groups
  ELSE Reverse(edge_groups)

GreenAvailable_unfiltered(g) == g

GreenAvailable(g) == SelectSeq(g, LAMBDA pos : At(pos) = Empty)

GreenPositionsToFill_uncapped(avail) == Len(avail)

GreenPositionsToFill(avail) == Min(Len(avail), target_green_remaining)

GreenInit ==
  /\ pc = "green_init"
  /\ green_count' = 0
  /\ target_green_remaining' = non_hydrophobic_count
  /\ pc' = "green_head"
  /\ role' = "face"
  /\ group' = 1
  /\ UNCHANGED <<inputs, grid, writes, blue_count, current_vertex_count,
                 current_edge_count, current_face_count, remaining_blue,
                 i, locals, last_pair>>

(* the role counter the running loop increments *)
RoleCount ==
  IF role = "face" THEN current_face_count
  ELSE IF role = "corner" THEN current_vertex_count
  ELSE current_edge_count

RoleChains ==
  IF role = "face" THEN face_chains
  ELSE IF role = "corner" THEN vertex_chains
  ELSE edge_chains

GreenCount(n) ==
  /\ green_count' = green_count + n
  /\ target_green_remaining' = target_green_remaining - n
  /\ current_face_count' =
       IF role = "face" THEN current_face_count + n ELSE current_face_count
  /\ current_vertex_count' =
       IF role = "corner" THEN current_vertex_count + n
       ELSE current_vertex_count
  /\ current_edge_count' =
       IF role = "edge" THEN current_edge_count + n ELSE current_edge_count
  /\ UNCHANGED <<blue_count, remaining_blue>>

(* the tests closing one pass of a loop (the face loop tests the role      *)
(* counter only), and the end of the list                                  *)
GreenAfter(tgr, cnt) ==
  IF (role # "face" /\ tgr <= 0) \/ cnt >= RoleChains
     \/ group = Len(GreenGroups)
    THEN /\ group' = 1
         /\ role' = IF role = "face" THEN "corner" ELSE "edge"
         /\ pc' = IF role = "edge" THEN "done" ELSE "green_head"
    ELSE /\ group' = group + 1
         /\ pc' = "green_head"
         /\ UNCHANGED role

GreenHead ==
  /\ pc = "green_head"
  /\ LET avail == GreenAvailable(GreenGroups[group])
         ptf == GreenPositionsToFill(avail)
     IN  /\ available_positions' = avail
         /\ positions_to_fill' = ptf
         /\ IF ptf > 0
              THEN /\ pc' = IF ptf = Len(avail) THEN "green_full"
                            ELSE IF ptf % 2 = 0 /\ Len(avail) % 2 = 0
                              THEN "green_pair"
                              ELSE "green_seq"
                   /\ UNCHANGED <<role, group>>
              ELSE GreenAfter(target_green_remaining, RoleCount)
  /\ i' = 0
  /\ UNCHANGED <<inputs, grid, writes, counters, pairs_to_fill, last_pair>>

GreenFull ==
  /\ pc = "green_full"
  /\ Put(available_positions[i + 1], NonHydrophobic)
  /\ GreenCount(1)
  /\ i' = i + 1
  /\ IF i + 1 < Len(available_positions)
       THEN UNCHANGED <<pc, role, group>>
       ELSE GreenAfter(target_green_remaining - 1, RoleCount + 1)
  /\ UNCHANGED <<inputs, locals, last_pair>>

GreenPair ==
  /\ pc = "green_pair"
  /\ IF i + 1 < Len(available_positions)
       THEN /\ Put(available_positions[i + 1], NonHydrophobic)
            /\ pc' = "green_pair2"
            /\ UNCHANGED <<i, role, group>>
       ELSE /\ i' = i + 2
            /\ IF i + 2 < positions_to_fill
                 THEN UNCHANGED <<pc, role, group>>
                 ELSE GreenAfter(target_green_remaining, RoleCount)
            /\ UNCHANGED <<grid, writes>>
  /\ UNCHANGED <<inputs, counters, locals, last_pair>>

GreenPair2 ==
  /\ pc = "green_pair2"
  /\ Put(available_positions[i + 2], NonHydrophobic)
  /\ GreenCount(2)
  /\ i' = i + 2
  /\ IF i + 2 < positions_to_fill
       THEN /\ pc' = "green_pair"
            /\ UNCHANGED <<role, group, last_pair>>
       ELSE /\ GreenAfter(target_green_remaining - 2, RoleCount + 2)
            /\ last_pair' = <<GreenGroups[group], NonHydrophobic>>
  /\ UNCHANGED <<inputs, locals>>

GreenSeq ==
  /\ pc = "green_seq"
  /\ Put(available_positions[i + 1], NonHydrophobic)
  /\ GreenCount(1)
  /\ i' = i + 1
  /\ IF i + 1 < positions_to_fill
       THEN UNCHANGED <<pc, role, group>>
       ELSE GreenAfter(target_green_remaining - 1, RoleCount + 1)
  /\ UNCHANGED <<inputs, locals, last_pair>>

----------------------------------------------------------------------------

Next ==
  \/ CornerBlueWrite
  \/ CornerBlueAdvance
  \/ EdgeBlueHead
  \/ EdgeBluePair
  \/ EdgeBluePair2
  \/ EdgeBlueSeq
  \/ FaceBlueInit
  \/ FaceBlueHead
  \/ FaceBlueFull
  \/ FaceBluePair
  \/ FaceBluePair2
  \/ GreenInit
  \/ GreenHead
  \/ GreenFull
  \/ GreenPair
  \/ GreenPair2
  \/ GreenSeq

Spec == Init /\ [][Next]_vars

----------------------------------------------------------------------------
(* Counting the labels of the grid *)

AllCells == RowMajor(0, GridSize - 1)

Filled == {NonHydrophobic, Hydrophobic}

(* the number of cells of the list s whose label is in labels *)
CountIn(s, labels) == Cardinality({k \in DOMAIN s : At(s[k]) \in labels})

(* some cell of the list s is Hydrophobic *)
HasHydrophobic(s) == \E k \in DOMAIN s : At(s[k]) = Hydrophobic

(* this step makes a cell of the list s Hydrophobic *)
TurnsHydrophobic(s) ==
  \E k \in DOMAIN s : At(s[k])' = Hydrophobic /\ At(s[k]) # Hydrophobic

NoRepeat(s) == Cardinality(Range(s)) = Len(s)

(* corners, edges and faces cover the grid and no cell is in two of them *)
RolePartition ==
  /\ NoRepeat(corners) /\ NoRepeat(edges) /\ NoRepeat(faces)
  /\ Range(corners) \cup Range(edges) \cup Range(faces) = Cells
  /\ Range(corners) \cap Range(edges) = {}
  /\ Range(corners) \cap Range(faces) = {}
  /\ Range(edges) \cap Range(faces) = {}

FullDensities ==
  vertex_gd = VertexRes /\ edge_gd = EdgeRes /\ face_gd = FaceRes

(* the symmetries of the square grid named by the symmetry property *)
Rot180(p) == <<GridSize - 1 - p[1], GridSize - 1 - p[2]>>
FlipRows(p) == <<GridSize - 1 - p[1], p[2]>>
FlipCols(p) == <<p[1], GridSize - 1 - p[2]>>
Transpose(p) == <<p[2], p[1]>>
AntiTranspose(p) == <<GridSize - 1 - p[2], GridSize - 1 - p[1]>>

Symmetric(S) ==
  \/ {Rot180(p) : p \in S} = S
  \/ {FlipRows(p) : p \in S} = S
  \/ {FlipCols(p) : p \in S} = S
  \/ {Transpose(p) : p \in S} = S
  \/ {AntiTranspose(p) : p \in S} = S

(* the cells of the group of the last pair fill that carry its label *)
LastPairCells == {p \in Range(last_pair[1]) : At(p) = last_pair[2]}

----------------------------------------------------------------------------
(* C1: in the returned grid the number of non-Empty cells of each role      *)
(* (Corner, Edge, Face) is at most that role's target count.               *)
C1_RoleTargetsRespected ==
  pc = "done" =>
    /\ CountIn(corners, Filled) <= vertex_chains
    /\ CountIn(edges, Filled) <= edge_chains
    /\ CountIn(faces, Filled) <= face_chains

(* C2: after every write and in the returned grid, the number of           *)
(* Hydrophobic cells is at most hydrophobic_count, which is                *)
(* floor(total_chains * blue_ratio).                                       *)
C2_HydrophobicWithinTarget ==
  /\ hydrophobic_count = PyInt(total_chains * blue_ratio, RatioRes)
  /\ CountIn(AllCells, {Hydrophobic}) <= hydrophobic_count

(* the three hydrophobic phases have all written and the target is met *)
C2_Witness ==
  /\ pc = "done"
  /\ CountIn(corners, {Hydrophobic}) > 0
  /\ CountIn(edges, {Hydrophobic}) > 0
  /\ CountIn(faces, {Hydrophobic}) > 0
  /\ CountIn(AllCells, {Hydrophobic}) = hydrophobic_count
  /\ hydrophobic_count < total_chains

(* C3: in the returned grid the number of non-Empty cells is at most       *)
(* total_chains and the number of NonHydrophobic cells is at most          *)
(* non_hydrophobic_count = total_chains - hydrophobic_count.               *)
C3_TotalsWithinTargets ==
  pc = "done" =>
    /\ CountIn(AllCells, Filled) <= total_chains
    /\ CountIn(AllCells, {NonHydrophobic})
         <= total_chains - hydrophobic_count

(* a returned grid of both colours that meets both targets exactly *)
C3_Witness ==
  /\ pc = "done"
  /\ hydrophobic_count > 0
  /\ CountIn(AllCells, {NonHydrophobic}) = total_chains - hydrophobic_count
  /\ CountIn(AllCells, {NonHydrophobic}) > 0
  /\ CountIn(AllCells, Filled) = total_chains

(* C4: every write changes one cell from Empty to NonHydrophobic or        *)
(* Hydrophobic, no non-Empty cell is written again (the number of writes   *)
(* is the number of non-Empty cells), and every cell holds 0, 1 or 2.      *)
C4_WrittenAtMostOnce ==
  /\ [](/\ \A r \in 1..GridSize : \A c \in 1..GridSize :
             grid[r][c] \in {Empty, NonHydrophobic, Hydrophobic}
        /\ writes = CountIn(AllCells, Filled))
  /\ [][\A r \in 1..GridSize :
          grid[r]' # grid[r] =>
            \A c \in 1..GridSize :
              grid[r][c]' # grid[r][c] =>
                grid[r][c] = Empty /\ grid[r][c]' \in Filled]_vars

(* a returned grid where the NonHydrophobic pass went through a group      *)
(* that already held Hydrophobic cells and filled the rest of it           *)
C4_Witness ==
  /\ pc = "done"
  /\ \E k \in DOMAIN edge_groups :
       /\ CountIn(edge_groups[k], {Hydrophobic}) > 0
       /\ CountIn(edge_groups[k], {NonHydrophobic}) > 0

(* C5: with the three densities 1 and the ratio 1 the returned grid has    *)
(* all 49 cells Hydrophobic.                                               *)
C5_AllHydrophobic ==
  pc = "done" /\ FullDensities /\ blue_ratio = RatioRes =>
    /\ Len(AllCells) = 49
    /\ CountIn(AllCells, {Hydrophobic}) = 49

C5_Witness ==
  /\ pc = "done" /\ FullDensities /\ blue_ratio = RatioRes
  /\ writes = 49

(* C6: with the three densities 1 and the ratio 0 the returned grid has    *)
(* all 49 cells NonHydrophobic and no Hydrophobic cell.                    *)
C6_AllNonHydrophobic ==
  pc = "done" /\ FullDensities /\ blue_ratio = 0 =>
    /\ CountIn(AllCells, {NonHydrophobic}) = 49
    /\ CountIn(AllCells, {Hydrophobic}) = 0

C6_Witness ==
  /\ pc = "done" /\ FullDensities /\ blue_ratio = 0
  /\ green_count = 49

(* C7: with the three densities 0, whatever the ratio, the returned grid   *)
(* is entirely Empty.                                                      *)
C7_ZeroDensitiesEmpty ==
  pc = "done" /\ vertex_gd = 0 /\ edge_gd = 0 /\ face_gd = 0 =>
    /\ CountIn(AllCells, {Hydrophobic}) = 0
    /\ CountIn(AllCells, {NonHydrophobic}) = 0

(* the call with densities 0 and ratio 1 has returned, every loop having   *)
(* looked at its first group                                               *)
C7_Witness ==
  /\ pc = "done" /\ vertex_gd = 0 /\ edge_gd = 0 /\ face_gd = 0
  /\ blue_ratio = RatioRes
  /\ available_positions = Reverse(edge_groups)[1]

(* C8 as stated: the roles are a disjoint cover of the 49 cells with 12    *)
(* corners, 24 edges and 13 faces, the sizes the role targets are computed *)
(* from.                                                                   *)
C8_Sizes_12_24_13 ==
  /\ RolePartition
  /\ Len(corners) = 12 /\ Len(edges) = 24 /\ Len(faces) = 13
  /\ vertex_chains = PyInt(vertex_gd * 12, VertexRes)
  /\ edge_chains = PyInt(edge_gd * 24, EdgeRes)
  /\ face_chains = PyInt(face_gd * 13, FaceRes)

(* C8 amended: the roles are a disjoint cover of the 49 cells with 12      *)
(* corners, 28 edges and 9 faces, the sizes the role targets are computed  *)
(* from.                                                                   *)
C8_Sizes_12_28_9 ==
  /\ RolePartition
  /\ Cardinality(Cells) = 49
  /\ Len(corners) = 12 /\ Len(edges) = 28 /\ Len(faces) = 9
  /\ vertex_chains = PyInt(vertex_gd * 12, VertexRes)
  /\ edge_chains = PyInt(edge_gd * 28, EdgeRes)
  /\ face_chains = PyInt(face_gd * 9, FaceRes)

(* a returned grid with every cell of every role filled *)
C8_Witness ==
  /\ pc = "done" /\ FullDensities
  /\ CountIn(corners, Filled) = 12
  /\ CountIn(edges, Filled) = 28
  /\ CountIn(faces, Filled) = 9

(* C9: Hydrophobic goes to corners, then edges, then faces: no corner      *)
(* becomes Hydrophobic once an edge or face cell is, no edge cell once a   *)
(* face cell is; an edge cell is Hydrophobic only if the Hydrophobic       *)
(* corners equal the corner target, a face cell only if the Hydrophobic    *)
(* edge cells have reached the edge target.                                *)
C9_PriorityCascade ==
  /\ [](/\ HasHydrophobic(edges)
             => CountIn(corners, {Hydrophobic}) = vertex_chains
        /\ HasHydrophobic(faces)
             => CountIn(edges, {Hydrophobic}) >= edge_chains)
  /\ [][/\ TurnsHydrophobic(corners)
             => ~HasHydrophobic(edges) /\ ~HasHydrophobic(faces)
        /\ TurnsHydrophobic(edges) => ~HasHydrophobic(faces)]_vars

(* a returned grid with Hydrophobic cells of all three roles, the edge     *)
(* target not being the whole role                                         *)
C9_Witness ==
  /\ pc = "done"
  /\ vertex_chains > 0
  /\ edge_chains < Len(edges)
  /\ CountIn(corners, {Hydrophobic}) = vertex_chains
  /\ CountIn(edges, {Hydrophobic}) > 0
  /\ CountIn(faces, {Hydrophobic}) > 0

(* C10: after a loop has filled a group in pairs, the cells of that group  *)
(* that carry the label written are mapped onto themselves by the          *)
(* half-turn, by a reflection in a midline or by a reflection in a         *)
(* diagonal of the grid.                                                   *)
C10_PairFillSymmetric ==
  last_pair # <<>> => LastPairCells # {} /\ Symmetric(LastPairCells)

(* a pair fill that stopped short of the whole group, once for each colour *)
C10_Witness ==
  /\ last_pair # <<>>
  /\ last_pair[2] = NonHydrophobic
  /\ Cardinality(LastPairCells) < Len(last_pair[1])
  /\ \E k \in DOMAIN edge_groups :
       /\ CountIn(edge_groups[k], {Hydrophobic}) = 2
       /\ CountIn(edge_groups[k], Filled) = 2
       /\ Len(edge_groups[k]) = 4

====
